---- MODULE Spec2Model ----
(***************************************************************************)
(* A model of the blog application in main.py and models.py: the in-memory *)
(* post list, the users table with its unique columns, the route handlers  *)
(* and the two exception handlers.  FastAPI runs the synchronous handlers  *)
(* on a thread pool, so several requests can be in flight at once: the two *)
(* creating handlers are split at the points where they read and then      *)
(* write shared state; every other handler is a single step.               *)
(***************************************************************************)
EXTENDS Integers, Sequences, FiniteSets, Bags

\* ---------------------------------------------------------------- bounds
MaxInFlight == 2   \* creating requests in flight at once
MaxPosts == 4      \* posts in the list, the two initial ones included

PostIds == 1..(MaxPosts + 1)      \* path parameter of the post routes
UserIds == 1..3                   \* path parameter of the user route
Titles == {"T"}                   \* PostCreate.title
Contents == {"C"}                 \* PostCreate.content
Authors == {"A"}                  \* PostCreate.author
Usernames == {"ann", "bob"}       \* UserCreate.username
Emails == {"a@x.io", "b@x.io"}    \* UserCreate.email

\* ------------------------------------------------------ status constants
HTTP_200_OK == 200
HTTP_201_CREATED == 201
HTTP_400_BAD_REQUEST == 400
HTTP_404_NOT_FOUND == 404
HTTP_422_UNPROCESSABLE_CONTENT == 422
HTTP_500_INTERNAL_SERVER_ERROR == 500

VARIABLES
    posts,      \* the module-level list of post dicts
    users,      \* the rows of table "users", in insertion order
    requests,   \* the bag of creating requests in flight, each a record of
                \* where its handler stands (pc) and of the handler's locals:
                \* post and post_id of create_post, user of create_user
    response    \* the response a handler has returned and the server is
                \* sending; NoResponse once it is sent

vars == <<posts, users, requests, response>>

\* ------------------------------------------------------------ data model
InitialPosts ==
    << [id |-> 1, author |-> "Corey Schafer", title |-> "FastAPI is Awesome",
        content |-> "This framework is really easy to use and super fast.",
        date_posted |-> "April 20, 2025"],
       [id |-> 2, author |-> "Jane Doe",
        title |-> "Python is Great for Web Development",
        content |-> "Python is a great language for web development, and FastAPI makes it even better.",
        date_posted |-> "April 21, 2025"] >>

NoPost == [id |-> 0, author |-> "", title |-> "", content |-> "", date_posted |-> ""]
NoPostCreate == [title |-> "", content |-> "", author |-> ""]
NoUser == [id |-> 0, username |-> "", email |-> ""]
NoUserCreate == [username |-> "", email |-> ""]
NoContext == [status_code |-> 0, title |-> "", message |-> ""]

\* A request path is the sequence of its characters.
ApiPrefix == <<"/", "a", "p", "i">>
Digits == <<"1", "2", "3", "4", "5", "6", "7", "8", "9">>
PathHome == <<"/">>
PathPostPage(id) == <<"/", "p", "o", "s", "t", "s", "/", Digits[id]>>
PathApiPosts == <<"/", "a", "p", "i", "/", "p", "o", "s", "t", "s">>
PathApiPost(id) == PathApiPosts \o <<"/", Digits[id]>>
PathApiUsers == <<"/", "a", "p", "i", "/", "u", "s", "e", "r", "s">>
PathApiUser(id) == PathApiUsers \o <<"/", Digits[id]>>
PathApiLogin == <<"/", "a", "p", "i", "/", "l", "o", "g", "i", "n">>
PathApiRegister == <<"/", "a", "p", "i", "/", "r", "e", "g", "i", "s", "t", "e", "r">>

\* a prefix test that looks for the prefix anywhere in the path
StartsWith_Contains(path, prefix) ==
    \E k \in 0..(Len(path) - Len(prefix)) :
        \A i \in 1..Len(prefix) : path[k + i] = prefix[i]

\* str.startswith
StartsWith(path, prefix) ==
    /\ Len(path) >= Len(prefix)
    /\ \A i \in 1..Len(prefix) : path[i] = prefix[i]

NoResponse ==
    [handler |-> "none", path |-> <<>>, status_code |-> 0,
     media |-> "none", detail |-> "", errors |-> <<>>, post |-> NoPost,
     posts |-> <<>>, user |-> NoUser, template |-> "", context |-> NoContext]


\* str(status_code), as the template prints the integer it is given for title
Str(n) ==
    CASE n = 400 -> "400" [] n = 404 -> "404" [] n = 405 -> "405"
      [] n = 422 -> "422" [] OTHER -> "?"

\* ---------------------------------------------------- exception handlers
FallbackMessage == "An error occurred. Please check your request and try again."
InvalidMessage == "Invalid request. Please check your input and try again."

\* general_http_exception_handler(request, exception)
general_http_exception_handler(path, exception) ==
    LET message == IF exception.detail # "" THEN exception.detail
                   ELSE FallbackMessage
    IN  IF StartsWith(path, ApiPrefix)
        THEN [NoResponse EXCEPT !.path = path, !.media = "json",
                                !.status_code = exception.status_code,
                                !.detail = message]
        ELSE [NoResponse EXCEPT !.path = path, !.media = "html",
                                !.status_code = exception.status_code,
                                !.template = "error.html",
                                !.context = [status_code |-> exception.status_code,
                                             title |-> Str(exception.status_code),
                                             message |-> message]]

\* validation_exception_handler(request, exception)
validation_exception_handler(path, exception) ==
    IF StartsWith(path, ApiPrefix)
    THEN [NoResponse EXCEPT !.path = path, !.media = "json",
                            !.status_code = HTTP_422_UNPROCESSABLE_CONTENT,
                            !.errors = exception.errors]
    ELSE [NoResponse EXCEPT !.path = path, !.media = "html",
                            !.status_code = HTTP_422_UNPROCESSABLE_CONTENT,
                            !.template = "error.html",
                            !.context = [status_code |-> HTTP_422_UNPROCESSABLE_CONTENT,
                                         title |-> Str(HTTP_422_UNPROCESSABLE_CONTENT),
                                         message |-> InvalidMessage]]

\* raise HTTPException(status_code, detail) inside a route handler
HTTPException(status_code, detail) == [status_code |-> status_code, detail |-> detail]

\* An exception no handler is registered for (TypeError, IntegrityError):
\* the server answers 500 with the plain text "Internal Server Error".
UnhandledException(path) ==
    [NoResponse EXCEPT !.path = path, !.media = "text",
                       !.status_code = HTTP_500_INTERNAL_SERVER_ERROR,
                       !.detail = "Internal Server Error"]

\* The response as it leaves the route handler h.
Respond(h, r) == [r EXCEPT !.handler = h]

\* ------------------------------------------------------------ post store
Max(S) == CHOOSE m \in S : \A x \in S : x <= m

\* a scan that starts at the second post
FindPost_SkipsFirst(ps, id) ==
    IF \E i \in 2..Len(ps) : ps[i].id = id
    THEN ps[CHOOSE i \in 2..Len(ps) :
                /\ ps[i].id = id
                /\ \A j \in 2..(i - 1) : ps[j].id # id]
    ELSE NoPost

\* for post in posts: if post['id'] == post_id: return post
FindPost(ps, id) ==
    IF \E i \in 1..Len(ps) : ps[i].id = id
    THEN ps[CHOOSE i \in 1..Len(ps) :
                /\ ps[i].id = id
                /\ \A j \in 1..(i - 1) : ps[j].id # id]
    ELSE NoPost

\* an id computation that forgets the + 1
NextPostId_NoIncrement(ps) ==
    IF ps # <<>> THEN Max({ps[i].id : i \in 1..Len(ps)}) ELSE 1

\* max([p["id"] for p in posts]) + 1 if posts else 1
NextPostId(ps) ==
    IF ps # <<>> THEN Max({ps[i].id : i \in 1..Len(ps)}) + 1 ELSE 1

\* the dict create_post builds
NewPost(id, body) ==
    [id |-> id, title |-> body.title, content |-> body.content,
     author |-> body.author, date_posted |-> "January 15, 2026"]

\* an insert at the head of the list
AppendPost_Prepend(ps, new_post) == <<new_post>> \o ps

\* an append that takes the id again from the list as it is when it appends
AppendPost_FreshId(ps, new_post) ==
    Append(ps, [new_post EXCEPT !.id = NextPostId(ps)])

\* posts.append(new_post)
AppendPost(ps, new_post) == Append(ps, new_post)

\* post['title'][:50]; every title of the model is shorter than 50 characters
Slice50(title) == title

\* a request inside create_post, between line 111 and line 119
CreatePostRequest(body, id) ==
    [pc |-> "create_post_append", post |-> body, post_id |-> id, user |-> NoUserCreate]

\* a request inside create_user, before the statement pc names
CreateUserRequest(at, body) ==
    [pc |-> at, post |-> NoPostCreate, post_id |-> 0, user |-> body]

InFlight == BagToSet(requests)
Started(r) == requests (+) SetToBag({r})
Finished(r) == requests (-) SetToBag({r})
Moved(r, q) == (requests (-) SetToBag({r})) (+) SetToBag({q})
CanStart == BagCardinality(requests) < MaxInFlight
Appending == {r \in InFlight : r.pc = "create_post_append"}
NumAppending ==
    IF Appending = {} THEN 0
    ELSE BagCardinality([r \in Appending |-> CopiesIn(r, requests)])

Init ==
    /\ posts = InitialPosts
    /\ users = <<>>
    /\ requests = EmptyBag
    /\ response = NoResponse

\* GET / and GET /posts
home ==
    /\ response' = Respond("home",
            [NoResponse EXCEPT !.path = PathHome, !.media = "html",
                               !.status_code = HTTP_200_OK,
                               !.template = "home.html", !.posts = posts,
                               !.context = [NoContext EXCEPT !.title = "Home Page"]])
    /\ UNCHANGED <<posts, users, requests>>

\* GET /posts/{post_id}
post_page(id) ==
    /\ LET found == FindPost(posts, id)
       IN  response' = Respond("post_page",
             IF found # NoPost
             THEN [NoResponse EXCEPT !.path = PathPostPage(id), !.media = "html",
                                     !.status_code = HTTP_200_OK,
                                     !.template = "post.html", !.post = found,
                                     !.context = [NoContext EXCEPT
                                                    !.title = Slice50(found.title)]]
             ELSE [NoResponse EXCEPT !.path = PathPostPage(id), !.media = "html",
                                     !.status_code = HTTP_200_OK,
                                     !.template = "error.html",
                                     !.context = [NoContext EXCEPT
                                                    !.status_code = HTTP_404_NOT_FOUND,
                                                    !.message = "Post not found"]])
    /\ UNCHANGED <<posts, users, requests>>

\* GET /api/posts
get_posts ==
    /\ response' = Respond("get_posts",
            [NoResponse EXCEPT !.path = PathApiPosts, !.media = "json",
                               !.status_code = HTTP_200_OK, !.posts = posts])
    /\ UNCHANGED <<posts, users, requests>>

\* what GET /api/posts/{post_id} answers when the list is ps
GetPostResponse(ps, id) ==
    LET found == FindPost(ps, id)
    IN  Respond("get_post",
          IF found # NoPost
          THEN [NoResponse EXCEPT !.path = PathApiPost(id), !.media = "json",
                                  !.status_code = HTTP_200_OK, !.post = found]
          ELSE general_http_exception_handler(PathApiPost(id),
                   HTTPException(HTTP_404_NOT_FOUND, "Post not found")))

\* GET /api/posts/{post_id}
get_post(id) ==
    /\ response' = GetPostResponse(posts, id)
    /\ UNCHANGED <<posts, users, requests>>

\* POST /api/posts, line 111: the id is computed from the list as it is now
create_post_read(body) ==
    /\ CanStart
    /\ Len(posts) + NumAppending < MaxPosts
    /\ requests' = Started(CreatePostRequest(body, NextPostId(posts)))
    /\ UNCHANGED <<posts, users, response>>

\* POST /api/posts, lines 112-120: the dict is built, appended and returned
create_post_append(r) ==
    /\ r \in InFlight
    /\ r.pc = "create_post_append"
    /\ LET new_post == NewPost(r.post_id, r.post)
       IN  /\ posts' = AppendPost(posts, new_post)
           /\ response' = Respond("create_post",
                 [NoResponse EXCEPT !.path = PathApiPosts, !.media = "json",
                                    !.status_code = HTTP_201_CREATED,
                                    !.post = new_post])
    /\ requests' = Finished(r)
    /\ UNCHANGED users

\* ----------------------------------------------------------- users table
\* select(models.User).where(models.User.username == username), .first()
SelectByUsername(us, username) ==
    IF \E i \in 1..Len(us) : us[i].username = username
    THEN us[CHOOSE i \in 1..Len(us) : us[i].username = username]
    ELSE NoUser

\* an email check that compares the username column
SelectByEmail_ByUsername(us, email) ==
    IF \E i \in 1..Len(us) : us[i].username = email
    THEN us[CHOOSE i \in 1..Len(us) : us[i].username = email]
    ELSE NoUser

\* select(models.User).where(models.User.email == email), .first()
SelectByEmail(us, email) ==
    IF \E i \in 1..Len(us) : us[i].email = email
    THEN us[CHOOSE i \in 1..Len(us) : us[i].email = email]
    ELSE NoUser

\* columns without a unique index
UniqueViolation_None(us, row) == FALSE

\* unique=True on username and on email: the insert of row is refused
UniqueViolation(us, row) ==
    \E i \in 1..Len(us) :
        us[i].username = row.username \/ us[i].email = row.email

\* the integer primary key the table gives a new row
NextUserId(us) ==
    IF us # <<>> THEN Max({us[i].id : i \in 1..Len(us)}) + 1 ELSE 1

\* models.User(username=..., email=...) as stored by add / commit / refresh
NewUser(us, body) ==
    [id |-> NextUserId(us), username |-> body.username, email |-> body.email]

\* the UserCreate body a create_user response answers
Asked(body) == [NoUser EXCEPT !.username = body.username, !.email = body.email]

\* POST /api/users, lines 60-65: the username check
create_user_check_username(body) ==
    /\ LET existing_user == SelectByUsername(users, body.username)
       IN  IF existing_user # NoUser
           THEN /\ response' = Respond("create_user",
                      [general_http_exception_handler(PathApiUsers,
                           HTTPException(HTTP_400_BAD_REQUEST, "Username already exists"))
                       EXCEPT !.user = Asked(body)])
                /\ UNCHANGED requests
           ELSE /\ CanStart
                /\ requests' = Started(CreateUserRequest("create_user_check_email", body))
                /\ UNCHANGED response
    /\ UNCHANGED <<posts, users>>

\* POST /api/users, lines 67-72: the email check
create_user_check_email(r) ==
    /\ r \in InFlight
    /\ r.pc = "create_user_check_email"
    /\ LET existing_email == SelectByEmail(users, r.user.email)
       IN  IF existing_email # NoUser
           THEN /\ response' = Respond("create_user",
                      [general_http_exception_handler(PathApiUsers,
                           HTTPException(HTTP_400_BAD_REQUEST, "Email already exists"))
                       EXCEPT !.user = Asked(r.user)])
                /\ requests' = Finished(r)
           ELSE /\ requests' = Moved(r, CreateUserRequest("create_user_insert", r.user))
                /\ UNCHANGED response
    /\ UNCHANGED <<posts, users>>

\* POST /api/users, lines 74-83: add, commit, refresh, return
create_user_insert(r) ==
    /\ r \in InFlight
    /\ r.pc = "create_user_insert"
    /\ LET new_user == NewUser(users, r.user)
       IN  IF UniqueViolation(users, new_user)
           THEN \* commit raises IntegrityError; nothing catches it
                /\ response' = Respond("create_user",
                      [UnhandledException(PathApiUsers) EXCEPT !.user = Asked(r.user)])
                /\ UNCHANGED users
           ELSE /\ users' = Append(users, new_user)
                /\ response' = Respond("create_user",
                      [NoResponse EXCEPT !.path = PathApiUsers, !.media = "json",
                                         !.status_code = HTTP_201_CREATED,
                                         !.user = new_user])
    /\ requests' = Finished(r)
    /\ UNCHANGED posts

\* GET /api/users/{user_id}: select(...).where(id=user_id) raises TypeError,
\* where() takes no keyword argument, before the table is read
get_user(id) ==
    /\ response' = Respond("get_user",
            [UnhandledException(PathApiUser(id))
             EXCEPT !.user = [NoUser EXCEPT !.id = id]])
    /\ UNCHANGED <<posts, users, requests>>

\* GET /api/login: the body is pass, the response is 200 with JSON null
login ==
    /\ response' = Respond("login",
            [NoResponse EXCEPT !.path = PathApiLogin, !.media = "json",
                               !.status_code = HTTP_200_OK])
    /\ UNCHANGED <<posts, users, requests>>

\* GET /api/register
register ==
    /\ response' = Respond("register",
            [NoResponse EXCEPT !.path = PathApiRegister, !.media = "json",
                               !.status_code = HTTP_200_OK])
    /\ UNCHANGED <<posts, users, requests>>

\* ------------------------------------------- requests that end in an error
\* Paths of requests that fail before or outside a route handler.
ErrorPaths ==
    { PathHome, PathPostPage(9), PathApiPosts, PathApiUser(9),
      <<"/", "a", "p", "i", "a", "r", "y">>, <<"/", "a", "p">>,
      <<"/", "x", "/", "a", "p", "i">> }

\* StarletteHTTPException values: unknown route, wrong method, no detail
HTTPExceptions ==
    { HTTPException(HTTP_404_NOT_FOUND, "Not Found"),
      HTTPException(405, "Method Not Allowed"),
      HTTPException(HTTP_400_BAD_REQUEST, "") }

\* RequestValidationError values, with what exception.errors() gives
ValidationErrors ==
    { [errors |-> <<[type |-> "missing", loc |-> <<"body", "title">>]>>],
      [errors |-> <<[type |-> "int_parsing", loc |-> <<"path", "post_id">>]>>] }

\* a request at path ends in a StarletteHTTPException
http_exception(path, exception) ==
    /\ response' = Respond("http_exception",
                           general_http_exception_handler(path, exception))
    /\ UNCHANGED <<posts, users, requests>>

\* a request at path ends in a RequestValidationError
request_validation_error(path, exception) ==
    /\ response' = Respond("request_validation_error",
                           validation_exception_handler(path, exception))
    /\ UNCHANGED <<posts, users, requests>>

\* ---------------------------------------------------------- specification
PostCreate == [title : Titles, content : Contents, author : Authors]
UserCreate == [username : Usernames, email : Emails]

\* the server sends the returned response to the client; no handler reads
\* it, so sending it before the next handler step loses no behaviour
send_response ==
    /\ response # NoResponse
    /\ response' = NoResponse
    /\ UNCHANGED <<posts, users, requests>>

Sent == response = NoResponse

\* requests served concurrently by the thread pool
Next ==
    \/ Sent /\ home
    \/ Sent /\ \E id \in PostIds : post_page(id)
    \/ Sent /\ get_posts
    \/ Sent /\ \E id \in PostIds : get_post(id)
    \/ Sent /\ \E body \in PostCreate : create_post_read(body)
    \/ Sent /\ \E r \in InFlight : create_post_append(r)
    \/ Sent /\ \E body \in UserCreate : create_user_check_username(body)
    \/ Sent /\ \E r \in InFlight : create_user_check_email(r)
    \/ Sent /\ \E r \in InFlight : create_user_insert(r)
    \/ Sent /\ \E id \in UserIds : get_user(id)
    \/ Sent /\ login
    \/ Sent /\ register
    \/ Sent /\ \E path \in ErrorPaths, exception \in HTTPExceptions :
                   http_exception(path, exception)
    \/ Sent /\ \E path \in ErrorPaths, exception \in ValidationErrors :
                   request_validation_error(path, exception)
    \/ send_response

Spec == Init /\ [][Next]_vars

\* requests served one at a time: a request starts only when none is in
\* flight, and then it alone moves until it has answered
NoneInFlight == requests = EmptyBag
Ready == Sent /\ NoneInFlight

SerialNext ==
    \/ Ready /\ home
    \/ Ready /\ \E id \in PostIds : post_page(id)
    \/ Ready /\ get_posts
    \/ Ready /\ \E id \in PostIds : get_post(id)
    \/ Ready /\ \E body \in PostCreate : create_post_read(body)
    \/ Sent /\ \E r \in InFlight : create_post_append(r)
    \/ Ready /\ \E body \in UserCreate : create_user_check_username(body)
    \/ Sent /\ \E r \in InFlight : create_user_check_email(r)
    \/ Sent /\ \E r \in InFlight : create_user_insert(r)
    \/ Ready /\ \E id \in UserIds : get_user(id)
    \/ Ready /\ login
    \/ Ready /\ register
    \/ Ready /\ \E path \in ErrorPaths, exception \in HTTPExceptions :
                    http_exception(path, exception)
    \/ Ready /\ \E path \in ErrorPaths, exception \in ValidationErrors :
                    request_validation_error(path, exception)
    \/ send_response

SerialSpec == Init /\ [][SerialNext]_vars

\* ==================================================================
\* Properties
\* ==================================================================
StoredIds(ps) == {ps[i].id : i \in 1..Len(ps)}
DistinctIds(ps) == \A i, j \in 1..Len(ps) : i # j => ps[i].id # ps[j].id
HasPrefix(path) == Len(path) >= 4 /\ SubSeq(path, 1, 4) = <<"/", "a", "p", "i">>
UsernameStored(us, body) == \E i \in 1..Len(us) : us[i].username = body.username
EmailStored(us, body) == \E i \in 1..Len(us) : us[i].email = body.email
IsConflict(resp, detail) ==
    /\ resp.status_code = 400
    /\ resp.media = "json"
    /\ resp.detail = detail

\* C1: with requests served one at a time, create_post answers 201 with an
\* id one more than the largest id stored before the call (1 for an empty
\* list), stores a post with the title, content and author it was given,
\* and a get_post with that id right after answers 200 with that post.
C1_CreateThenGet ==
    [][\A r \in InFlight :
        create_post_append(r) =>
            LET before == posts
                id == IF Len(before) = 0 THEN 1
                      ELSE 1 + CHOOSE m \in StoredIds(before) :
                                   \A x \in StoredIds(before) : x <= m
                created == response'.post
                got == GetPostResponse(posts', id)
            IN  /\ response'.status_code = 201
                /\ created.id = id
                /\ created.title = r.post.title
                /\ created.content = r.post.content
                /\ created.author = r.post.author
                /\ got.status_code = 200
                /\ got.post = created
                /\ got.post.title = r.post.title
                /\ got.post.content = r.post.content
                /\ got.post.author = r.post.author]_vars

C1_Witness ==
    /\ response.handler = "create_post"
    /\ response.status_code = 201
    /\ response.post.id = 3
    /\ response.post.title = "T"
    /\ Len(posts) = 3
    /\ posts[3] = response.post

\* C2: with requests served one at a time, create_user answers 400
\* "Username already exists" when the username is stored (whether or not
\* the email is stored too), else 400 "Email already exists" when the email
\* is stored, else 201 with the user inserted; the table is unchanged in
\* both 400 cases.
C2_CreateUser ==
    [][/\ \A body \in UserCreate :
            create_user_check_username(body) =>
                /\ users' = users
                /\ IF UsernameStored(users, body)
                   THEN IsConflict(response', "Username already exists")
                        /\ requests' = requests
                   ELSE requests' # requests
       /\ \A r \in InFlight :
            create_user_check_email(r) =>
                /\ users' = users
                /\ ~UsernameStored(users, r.user)
                /\ IF EmailStored(users, r.user)
                   THEN IsConflict(response', "Email already exists")
                        /\ requests' = EmptyBag
                   ELSE requests' # EmptyBag
       /\ \A r \in InFlight :
            create_user_insert(r) =>
                /\ ~UsernameStored(users, r.user)
                /\ ~EmailStored(users, r.user)
                /\ response'.status_code = 201
                /\ response'.user.username = r.user.username
                /\ response'.user.email = r.user.email
                /\ users' = Append(users, response'.user)
                /\ requests' = EmptyBag]_vars

C2_Witness ==
    /\ response.handler = "create_user"
    /\ IsConflict(response, "Email already exists")
    /\ Len(users) = 1
    /\ users[1].email = response.user.email
    /\ users[1].username # response.user.username

\* C3: whatever the interleaving of create_user requests, no two rows of the
\* users table have the same username and no two have the same email.
C3_UniqueUsers ==
    \A i, j \in 1..Len(users) :
        i # j => /\ users[i].username # users[j].username
                 /\ users[i].email # users[j].email

\* a create_user that passed both checks was refused by the table
C3_Witness ==
    /\ response.handler = "create_user"
    /\ response.status_code = 500
    /\ UsernameStored(users, response.user)
    /\ Len(users) = 2

\* two create_post requests in flight that read the same maximum
C4_Racing(r) ==
    \E q \in Appending :
        /\ q.post_id = r.post_id
        /\ q # r \/ CopiesIn(r, requests) >= 2

C4_TwiceStored(ps, id) ==
    \E i, j \in 1..Len(ps) : i # j /\ ps[i].id = id /\ ps[j].id = id

C4_OneCreatorAtATime == NumAppending <= 1

\* C4: post ids are not safe under concurrent creators.  When two
\* create_post requests have both read the maximum before either appends,
\* the first append stores that id and leaves the other request holding it,
\* and an append of an id already stored leaves two posts with that id;
\* while in every run in which at most one create_post is in flight at a
\* time the stored ids stay pairwise distinct.
C4_RacingCreators ==
    /\ [][\A r \in Appending :
            create_post_append(r) =>
                /\ C4_Racing(r) =>
                      /\ r.post_id \in StoredIds(posts')
                      /\ \E q \in BagToSet(requests') :
                            q.pc = "create_post_append" /\ q.post_id = r.post_id
                /\ r.post_id \in StoredIds(posts) =>
                      C4_TwiceStored(posts', r.post_id)]_vars
    /\ ([]C4_OneCreatorAtATime => []DistinctIds(posts))

C4_Witness ==
    /\ ~DistinctIds(posts)
    /\ response.handler = "create_post"
    /\ C4_TwiceStored(posts, response.post.id)

\* C5: get_post answers 404 with JSON {"detail": "Post not found"} for an id
\* no stored post has, and 200 with a stored post of that id otherwise.
C5_GetPost ==
    [][\A id \in PostIds :
        response'.handler = "get_post" /\ get_post(id) =>
            IF id \notin StoredIds(posts)
            THEN /\ response'.status_code = 404
                 /\ response'.media = "json"
                 /\ response'.detail = "Post not found"
                 /\ response'.post = NoPost
            ELSE /\ response'.status_code = 200
                 /\ response'.media = "json"
                 /\ response'.post.id = id
                 /\ \E i \in 1..Len(posts) : posts[i] = response'.post]_vars

C5_Witness ==
    /\ response.handler = "get_post"
    /\ response.status_code = 404
    /\ response.detail = "Post not found"
    /\ response.path = PathApiPost(4)
    /\ Len(posts) = 3

\* C6: for every path and every error of the two categories the format is
\* decided by the "/api" prefix alone: JSON with a detail under it, the error
\* page otherwise; the status is the raised one for a status-coded failure
\* and 422 for a validation failure, in both formats; a status-coded failure
\* without a message carries the fallback message.
C6_ErrorFormat ==
    [][/\ \A path \in ErrorPaths, exception \in HTTPExceptions :
            response'.handler = "http_exception" /\ http_exception(path, exception) =>
                LET message == IF exception.detail = "" THEN FallbackMessage
                               ELSE exception.detail
                IN  /\ response'.status_code = exception.status_code
                    /\ IF HasPrefix(path)
                       THEN /\ response'.media = "json"
                            /\ response'.detail = message
                            /\ response'.template = ""
                       ELSE /\ response'.media = "html"
                            /\ response'.template = "error.html"
                            /\ response'.context.status_code = exception.status_code
                            /\ response'.context.message = message
       /\ \A path \in ErrorPaths, exception \in ValidationErrors :
            response'.handler = "request_validation_error"
            /\ request_validation_error(path, exception) =>
                /\ response'.status_code = 422
                /\ IF HasPrefix(path)
                   THEN /\ response'.media = "json"
                        /\ response'.errors = exception.errors
                        /\ response'.template = ""
                   ELSE /\ response'.media = "html"
                        /\ response'.template = "error.html"
                        /\ response'.context.status_code = 422]_vars

\* an error page with the fallback message, for a path that has "/api" in it
\* but not at its start
C6_Witness ==
    /\ response.handler = "http_exception"
    /\ response.media = "html"
    /\ response.context.message = FallbackMessage
    /\ response.path = <<"/", "x", "/", "a", "p", "i">>

\* C10: the post list is append-only.  A step that changes it is the append
\* of create_post and adds one post at the end, the posts before it kept in
\* their order; get_posts answers the list as it is and leaves it alone.
C10_AppendOnly ==
    [][/\ posts' # posts =>
            /\ \E r \in InFlight : create_post_append(r)
            /\ Len(posts') = Len(posts) + 1
            /\ SubSeq(posts', 1, Len(posts)) = posts
       /\ get_posts => response'.posts = posts /\ posts' = posts]_vars

C10_Witness ==
    /\ response.handler = "get_posts"
    /\ Len(response.posts) = 4
    /\ response.posts = posts

\* C7: get_user answers 200 with the stored user of the requested id, and
\* 404 when no stored user has that id.
C7_GetUser ==
    [][\A id \in UserIds :
        get_user(id) =>
            IF \E i \in 1..Len(users) : users[i].id = id
            THEN /\ response'.status_code = 200
                 /\ \E i \in 1..Len(users) :
                        users[i].id = id /\ response'.user = users[i]
            ELSE response'.status_code = 404]_vars

\* C8: the page GET /posts/{id} answers an id no stored post has with the
\* error page and response status 404, and an id a stored post has with that
\* post's page.
C8_PostPage ==
    [][\A id \in PostIds :
        post_page(id) =>
            IF id \notin StoredIds(posts)
            THEN /\ response'.template = "error.html"
                 /\ response'.status_code = 404
            ELSE /\ response'.template = "post.html"
                 /\ response'.status_code = 200
                 /\ response'.post.id = id
                 /\ \E i \in 1..Len(posts) : posts[i] = response'.post]_vars

\* C9: a create_user whose insert meets a stored username or email, after
\* it passed both checks, answers with the same conflict: 400 and the
\* matching "already exists" detail.
C9_InsertConflict ==
    [][\A r \in InFlight :
        create_user_insert(r) =>
            /\ UsernameStored(users, r.user) =>
                   IsConflict(response', "Username already exists")
            /\ (~UsernameStored(users, r.user) /\ EmailStored(users, r.user)) =>
                   IsConflict(response', "Email already exists")]_vars

====
